---- MODULE Spec2Model ----
(***************************************************************************)
(* Model of ddsp/processors.py: the Processor contract, the ProcessorGroup *)
(* DAG executor (get_controls / get_signal / call) and the routing         *)
(* processors Add and Mix.                                                 *)
(*                                                                         *)
(* Values of a namespace are tagged: a tensor (here one integer sample per *)
(* tensor), or a nested dictionary.  The mappings handed to the group live *)
(* in a heap of mapping objects so that aliasing (outputs = dag_inputs) is *)
(* part of the model.                                                      *)
(***************************************************************************)
EXTENDS Integers, Sequences, FiniteSets, TLC

\* ------------------------------------------------------------------ bounds
MaxNodes == 2       \* longest DAG handed to the constructor
MaxCalls == 2       \* invocations of the group in one behaviour

\* ------------------------------------------------------------------ values
T(n) == [tag |-> "tensor", val |-> n]
D(f) == [tag |-> "dict", val |-> f]
None == [tag |-> "none", val |-> 0]

IsTensor(v) == v.tag = "tensor"
IsDict(v) == v.tag = "dict"

Ok(v) == [ok |-> TRUE, val |-> v, err |-> ""]
Err(e) == [ok |-> FALSE, val |-> None, err |-> e]

\* The exceptions of the code, under the names of the error taxonomy where it
\* has one for them.
KeyError == "MissingInput"
IndexError == "ConfigurationError"
NotImplementedError == "NotImplemented"
ValueError == "InvalidArgument"
TypeError == "TypeError"
AttributeError == "AttributeError"

\* ------------------------------------------------------------------ processors
\* The processor instances a DAG may be assembled from.  Two of them are Add
\* instances with distinct names, one is a bare Processor (neither phase
\* overridden), one is an Add instance named like the group.
GroupName == "processor_group"

Processors ==
  << [name |-> "add", kind |-> "Add"],
     [name |-> "add2", kind |-> "Add"],
     [name |-> "proc", kind |-> "Processor"],
     [name |-> "processor_group", kind |-> "Add"] >>

ProcIds == 1..Len(Processors)

ProcName(p) == Processors[p].name

\* Processor.get_controls: not implemented in the base class.
ProcessorGetControls(inputs) == Err(NotImplementedError)

\* Processor.get_signal: not implemented in the base class.
ProcessorGetSignal(controls) == Err(NotImplementedError)

\* Add.get_controls(signal_one, signal_two): positional binding of *inputs,
\* then both signals passed through.
AddGetControls(inputs) ==
  IF Len(inputs) # 2 THEN Err(TypeError)
  ELSE Ok(D([signal_one |-> inputs[1], signal_two |-> inputs[2]]))

\* Add.get_signal(**controls): signal_one + signal_two.
AddGetSignal(controls) ==
  LET a == controls.val.signal_one
      b == controls.val.signal_two
  IN IF IsTensor(a) /\ IsTensor(b) THEN Ok(T(a.val + b.val))
     ELSE Err(TypeError)

GetControls(p, inputs) ==
  IF Processors[p].kind = "Add" THEN AddGetControls(inputs)
  ELSE ProcessorGetControls(inputs)

GetSignal(p, controls) ==
  IF Processors[p].kind = "Add" THEN AddGetSignal(controls)
  ELSE ProcessorGetSignal(controls)

\* [tensor.shape for tensor in inputs]: a dictionary has no shape.
InputShapes(inputs) ==
  IF \A j \in 1..Len(inputs) : IsTensor(inputs[j]) THEN Ok(None)
  ELSE Err(AttributeError)

\* ------------------------------------------------------------------ key paths
\* core.nested_lookup(key, outputs): a key path is its sequence of segments.
RECURSIVE LookupFrom(_, _)
LookupFrom(segs, value) ==
  IF segs = <<>> THEN Ok(value)
  ELSE IF ~IsDict(value) THEN Err(KeyError)
  ELSE IF Head(segs) \notin DOMAIN value.val THEN Err(KeyError)
  ELSE LookupFrom(Tail(segs), value.val[Head(segs)])

nested_lookup(key, ns) == LookupFrom(key, D(ns))

\* Variant of the comprehension: a key that does not resolve yields a zero
\* tensor instead of ending it.
RECURSIVE LookupAllDefault(_, _)
LookupAllDefault(keys, ns) ==
  IF keys = <<>> THEN Ok(<<>>)
  ELSE LET first == LookupFrom(Head(keys), D(ns))
           rest == LookupAllDefault(Tail(keys), ns)
       IN [ok |-> TRUE,
           val |-> <<IF first.ok THEN first.val ELSE T(0)>> \o rest.val,
           err |-> ""]

\* inputs = [core.nested_lookup(key, outputs) for key in keys]: the first key
\* that does not resolve ends the comprehension.
RECURSIVE LookupAll(_, _)
LookupAll(keys, ns) ==
  IF keys = <<>> THEN Ok(<<>>)
  ELSE LET first == nested_lookup(Head(keys), ns)
       IN IF ~first.ok THEN Err(first.err)
          ELSE LET rest == LookupAll(Tail(keys), ns)
               IN IF ~rest.ok THEN Err(rest.err)
                  ELSE [ok |-> TRUE, val |-> <<first.val>> \o rest.val, err |-> ""]

\* ------------------------------------------------------------------ DAGs
KeyX == <<"x">>
KeyY == <<"y">>
KeyAddSignal == <<"add", "signal">>
KeyAdd == <<"add">>

Nodes ==
  { [processor |-> 1, keys |-> <<KeyX, KeyY>>],
    [processor |-> 2, keys |-> <<KeyAddSignal, KeyX>>],
    [processor |-> 1, keys |-> <<KeyAdd, KeyX>>],
    [processor |-> 3, keys |-> <<KeyX>>],
    [processor |-> 4, keys |-> <<KeyX, KeyX>>] }

RECURSIVE SeqsUpTo(_, _)
SeqsUpTo(S, n) ==
  IF n = 0 THEN {<<>>}
  ELSE LET shorter == SeqsUpTo(S, n - 1)
       IN shorter \cup {Append(s, e) : s \in shorter, e \in S}

Dags == SeqsUpTo(Nodes, MaxNodes)

\* The namespaces a caller may hand in: "x" is always present, "y" and a key
\* named like the first Add instance are optional; the tensors of one
\* namespace differ from each other and from those of the other namespaces.
TensorVals == {1, 2}

KeyOffset == [x |-> 0, y |-> 2, add |-> 4]

InputNamespaces ==
  { [k \in S |-> T(v + KeyOffset[k])] :
      v \in TensorVals, S \in {{"x"}, {"x", "y"}, {"x", "y", "add"}} }

\* ------------------------------------------------------------------ state
VARIABLES
  dag,        \* ProcessorGroup.dag
  built,      \* processor.built, per processor instance
  heap,       \* the mapping objects created by the caller
  pc,         \* position of the invocation in flight, "idle" if none
  entry,      \* "get_controls" or "call": the method the caller invoked
  arg,        \* dag_inputs: the mapping object passed in
  outputs,    \* the local `outputs` of get_controls: a mapping object
  i,          \* index of the node in execution
  inputs,     \* local `inputs`
  controls,   \* local `controls`
  signal,     \* local `signal`
  ret,        \* outcome of the last finished invocation
  calls,      \* number of invocations started
  base,       \* history: the content of dag_inputs when the invocation began
  recorded,   \* history: <<node, name, entry>> of each node recorded in this invocation
  steps,      \* history: <<node, step>> of each step taken in this invocation
  failedAt,   \* history: <<node, step>> at which the last invocation raised
  buildCount, \* history: how often processor.build ran, per instance
  mix         \* a Mix processor used on its own: its arguments, controls and result

vars == << dag, built, heap, pc, entry, arg, outputs, i, inputs, controls,
           signal, ret, calls, base, recorded, steps, failedAt, buildCount, mix >>

NoRet == [status |-> "none", error |-> "", ns |-> 0, signal |-> None]

\* ProcessorGroup.__init__: self.dag = dag.
GroupInit(dags) ==
  /\ dag \in dags
  /\ built = [p \in ProcIds |-> FALSE]
  /\ heap = <<>>
  /\ pc = "idle"
  /\ entry = "get_controls"
  /\ arg = 0
  /\ outputs = 0
  /\ i = 0
  /\ inputs = <<>>
  /\ controls = None
  /\ signal = None
  /\ ret = NoRet
  /\ calls = 0
  /\ base = << >>
  /\ recorded = <<>>
  /\ steps = <<>>
  /\ failedAt = <<0, "">>
  /\ buildCount = [p \in ProcIds |-> 0]

MixIdle == [pc |-> "unused", signal_one |-> <<>>, signal_two |-> <<>>,
            mix_level |-> <<>>, out |-> <<>>, err |-> ""]

Init ==
  /\ GroupInit(Dags)
  /\ mix = MixIdle

\* self.processors = [node[0] for node in self.dag]
GroupProcessors(d) == [j \in 1..Len(d) |-> d[j].processor]

\* Variant of the binding: outputs is a copy of dag_inputs.
BindOutputsCopy(h, m) == [heap |-> Append(h, h[m]), ref |-> Len(h) + 1]

\* Variant of the binding: the group keeps working on the first mapping it saw.
BindOutputsShared(h, m) == [heap |-> h, ref |-> 1]

\* outputs = dag_inputs: the local names the caller's mapping object itself.
BindOutputs(h, m) == [heap |-> h, ref |-> m]

\* Variant of the build test: build on every execution.
NeedsBuildAlways(p, b) == TRUE

\* if not processor.built
NeedsBuild(p, b) == ~b[p]

\* Variant of the record: the signal alone, without the controls.
RecordEntrySignalOnly(ns, name, c, s) ==
  [k \in DOMAIN ns \cup {name} |->
     IF k = name THEN D([signal |-> s]) ELSE ns[k]]

\* Variant of the record: a namespace that holds the latest node only.
RecordEntryPrune(ns, name, c, s) ==
  [k \in {name} |-> D([controls |-> c, signal |-> s])]

\* outputs[processor.name] = {'controls': controls, 'signal': signal}
RecordEntry(ns, name, c, s) ==
  [k \in DOMAIN ns \cup {name} |->
     IF k = name THEN D([controls |-> c, signal |-> s]) ELSE ns[k]]

\* Variant of the group entry: the signal of the first processor.
GroupEntryFirst(d, ns) ==
  LET procs == [j \in 1..Len(d) |-> d[j].processor]
  IN IF Len(procs) = 0 THEN Err(IndexError)
     ELSE LET output_name == ProcName(procs[1])
              sig == LookupFrom(<<output_name, "signal">>, D(ns))
          IN IF ~sig.ok THEN Err(sig.err)
             ELSE Ok(D([k \in DOMAIN ns \cup {GroupName} |->
                          IF k = GroupName THEN D([signal |-> sig.val])
                          ELSE ns[k]]))

\* Variant of the group entry: an empty DAG leaves the namespace as it is.
GroupEntryLenient(d, ns) ==
  LET procs == [j \in 1..Len(d) |-> d[j].processor]
  IN IF Len(procs) = 0 THEN Ok(D(ns))
     ELSE LET output_name == ProcName(procs[Len(procs)])
              sig == LookupFrom(<<output_name, "signal">>, D(ns))
          IN IF ~sig.ok THEN Err(sig.err)
             ELSE Ok(D([k \in DOMAIN ns \cup {GroupName} |->
                          IF k = GroupName THEN D([signal |-> sig.val])
                          ELSE ns[k]]))

\* output_name = self.processors[-1].name
\* outputs[self.name] = {'signal': outputs[output_name]['signal']}
GroupEntry(d, ns) ==
  LET procs == GroupProcessors(d)
  IN IF Len(procs) = 0 THEN Err(IndexError)
     ELSE LET output_name == ProcName(procs[Len(procs)])
              sig == nested_lookup(<<output_name, "signal">>, ns)
          IN IF ~sig.ok THEN Err(sig.err)
             ELSE Ok(D([k \in DOMAIN ns \cup {GroupName} |->
                          IF k = GroupName THEN D([signal |-> sig.val])
                          ELSE ns[k]]))

\* ProcessorGroup.get_signal: dag_outputs[self.name]['signal']
ProjectSignal(ns) == nested_lookup(<<GroupName, "signal">>, ns)

\* Variant of the propagation: the error of a node is swallowed and the loop
\* goes on with the next node.
PropagateSwallow(k, n) ==
  IF k > n THEN [raised |-> TRUE, pc |-> "idle", i |-> k]
  ELSE [raised |-> FALSE, pc |-> IF k < n THEN "lookup" ELSE "group", i |-> k + 1]

\* An exception raised at node k of n is not caught anywhere in get_controls
\* or call: control leaves the invocation.
Propagate(k, n) == [raised |-> TRUE, pc |-> "idle", i |-> k]

\* ------------------------------------------------------------------ actions
EndFrame ==
  /\ outputs' = 0
  /\ inputs' = <<>>
  /\ controls' = None
  /\ signal' = None

\* A step of node k raised error e.
Fail(e, k, step) ==
  LET next == Propagate(k, Len(dag))
  IN /\ failedAt' = <<k, step>>
     /\ steps' = Append(steps, <<k, step>>)
     /\ pc' = next.pc
     /\ i' = next.i
     /\ IF next.raised
          THEN /\ ret' = [status |-> "raised", error |-> e, ns |-> 0, signal |-> None]
               /\ EndFrame
          ELSE UNCHANGED << ret, outputs, inputs, controls, signal >>

\* The caller invokes get_controls(dag_inputs) or call(dag_inputs) on the
\* mapping object m of heap h.
Begin(e, h, m) ==
  LET b == BindOutputs(h, m)
  IN /\ pc = "idle"
     /\ calls < MaxCalls
     /\ calls' = calls + 1
     /\ entry' = e
     /\ arg' = m
     /\ heap' = b.heap
     /\ outputs' = b.ref
     /\ base' = h[m]
     /\ i' = 1
     /\ pc' = IF Len(dag) = 0 THEN "group" ELSE "lookup"
     /\ inputs' = <<>>
     /\ controls' = None
     /\ signal' = None
     /\ ret' = NoRet
     /\ recorded' = <<>>
     /\ steps' = <<>>
     /\ failedAt' = <<0, "">>
     /\ UNCHANGED << dag, built, buildCount, mix >>

\* Invocation on a mapping the caller has just created.
InvokeFresh ==
  \E e \in {"get_controls", "call"}, ns \in InputNamespaces :
    Begin(e, Append(heap, ns), Len(heap) + 1)

\* Invocation on a mapping the caller has passed to the group before.
InvokeAgain ==
  \E e \in {"get_controls", "call"}, m \in 1..Len(heap) :
    Begin(e, heap, m)

\* inputs = [core.nested_lookup(key, outputs) for key in keys]
Lookup ==
  /\ pc = "lookup"
  /\ LET r == LookupAll(dag[i].keys, heap[outputs])
     IN IF r.ok
          THEN /\ inputs' = r.val
               /\ pc' = "build"
               /\ steps' = Append(steps, <<i, "lookup">>)
               /\ UNCHANGED << i, ret, outputs, controls, signal, failedAt >>
          ELSE Fail(r.err, i, "lookup")
  /\ UNCHANGED << dag, built, heap, entry, arg, calls, base, recorded, buildCount, mix >>

\* if not processor.built: processor.build([tensor.shape for tensor in inputs])
Build ==
  /\ pc = "build"
  /\ LET p == dag[i].processor
         shapes == InputShapes(inputs)
     IN IF ~NeedsBuild(p, built)
          THEN /\ pc' = "controls"
               /\ steps' = Append(steps, <<i, "skip">>)
               /\ UNCHANGED << built, buildCount, i, ret, outputs, inputs,
                               controls, signal, failedAt >>
          ELSE IF shapes.ok
            THEN /\ built' = [built EXCEPT ![p] = TRUE]
                 /\ buildCount' = [buildCount EXCEPT ![p] = @ + 1]
                 /\ pc' = "controls"
                 /\ steps' = Append(steps, <<i, "build">>)
                 /\ UNCHANGED << i, ret, outputs, inputs, controls, signal, failedAt >>
            ELSE /\ Fail(shapes.err, i, "build")
                 /\ UNCHANGED << built, buildCount >>
  /\ UNCHANGED << dag, heap, entry, arg, calls, base, recorded, mix >>

\* controls = processor.get_controls(*inputs)
Controls ==
  /\ pc = "controls"
  /\ LET r == GetControls(dag[i].processor, inputs)
     IN IF r.ok
          THEN /\ controls' = r.val
               /\ pc' = "signal"
               /\ steps' = Append(steps, <<i, "controls">>)
               /\ UNCHANGED << i, ret, outputs, inputs, signal, failedAt >>
          ELSE Fail(r.err, i, "controls")
  /\ UNCHANGED << dag, built, heap, entry, arg, calls, base, recorded, buildCount, mix >>

\* signal = processor.get_signal(**controls)
Signal ==
  /\ pc = "signal"
  /\ LET r == GetSignal(dag[i].processor, controls)
     IN IF r.ok
          THEN /\ signal' = r.val
               /\ pc' = "record"
               /\ steps' = Append(steps, <<i, "signal">>)
               /\ UNCHANGED << i, ret, outputs, inputs, controls, failedAt >>
          ELSE Fail(r.err, i, "signal")
  /\ UNCHANGED << dag, built, heap, entry, arg, calls, base, recorded, buildCount, mix >>

\* outputs[processor.name] = {...}, then the next node or the end of the loop.
Record ==
  /\ pc = "record"
  /\ LET name == ProcName(dag[i].processor)
         ns == RecordEntry(heap[outputs], name, controls, signal)
     IN /\ heap' = [heap EXCEPT ![outputs] = ns]
        /\ recorded' = Append(recorded,
                              <<i, name, D([controls |-> controls, signal |-> signal])>>)
  /\ steps' = Append(steps, <<i, "record">>)
  /\ i' = i + 1
  /\ pc' = IF i < Len(dag) THEN "lookup" ELSE "group"
  /\ UNCHANGED << dag, built, entry, arg, outputs, inputs, controls, signal,
                  ret, calls, base, failedAt, buildCount, mix >>

\* The group's own entry, and the return of get_controls.
Group ==
  /\ pc = "group"
  /\ LET r == GroupEntry(dag, heap[outputs])
     IN IF r.ok
          THEN /\ heap' = [heap EXCEPT ![outputs] = r.val.val]
               /\ steps' = Append(steps, <<i, "group">>)
               /\ UNCHANGED << i, failedAt >>
               /\ IF entry = "get_controls"
                    THEN /\ ret' = [status |-> "returned", error |-> "",
                                    ns |-> outputs, signal |-> None]
                         /\ pc' = "idle"
                         /\ EndFrame
                    ELSE /\ pc' = "project"
                         /\ UNCHANGED << ret, outputs, inputs, controls, signal >>
          ELSE /\ Fail(r.err, i, "group")
               /\ UNCHANGED heap
  /\ UNCHANGED << dag, built, entry, arg, calls, base, recorded, buildCount, mix >>

\* call: signal = self.get_signal(dag_outputs); return signal
Project ==
  /\ pc = "project"
  /\ LET r == ProjectSignal(heap[outputs])
     IN IF r.ok
          THEN /\ ret' = [status |-> "returned", error |-> "", ns |-> 0,
                          signal |-> r.val]
               /\ pc' = "idle"
               /\ steps' = Append(steps, <<i, "project">>)
               /\ EndFrame
               /\ UNCHANGED << i, failedAt >>
          ELSE Fail(r.err, i, "project")
  /\ UNCHANGED << dag, built, heap, entry, arg, calls, base, recorded, buildCount, mix >>

Next ==
  \/ InvokeFresh
  \/ InvokeAgain
  \/ Lookup
  \/ Build
  \/ Controls
  \/ Signal
  \/ Record
  \/ Group
  \/ Project

Spec == Init /\ [][Next]_vars

\* ------------------------------------------------------------------ Mix
\* A tensor of Mix is its sequence of samples along the time axis.  Levels are
\* exact rationals: a mix level is a multiple of 1/(Unit*Unit), its square
\* root and the result of get_signal are multiples of 1/Unit.
MaxTime == 2        \* longest signal handed to Mix

Unit == 5           \* the level 1.0, in units of 1/Unit

SampleVals == {-1, 0, 2}

\* The mix levels in [0, 1] whose square root, and that of their distance to
\* 1, is a multiple of 1/Unit.
MixLevels ==
  { m \in 0..(Unit * Unit) :
      /\ \E r \in 0..Unit : r * r = m
      /\ \E r \in 0..Unit : r * r = Unit * Unit - m }

Signals == UNION { [1..n -> SampleVals] : n \in 1..MaxTime }

Abs(x) == IF x < 0 THEN -x ELSE x

\* tf.sqrt on a level, from units of 1/(Unit*Unit) to units of 1/Unit.
Sqrt(m) == CHOOSE r \in 0..Unit : r * r = m

\* Mix.get_controls: the length check; the level is what sigmoid and resample
\* deliver, any level of [0, 1] at each of the n_time_one steps.
MixGetControls(signal_one, signal_two) ==
  IF Len(signal_one) # Len(signal_two) THEN {Err(ValueError)}
  ELSE { Ok([signal_one |-> signal_one, signal_two |-> signal_two,
             mix_level |-> lv]) :
           lv \in [1..Len(signal_one) -> MixLevels] }

\* Mix.get_signal, in units of 1/Unit.
MixGetSignal(signal_one, signal_two, mix_level) ==
  LET mix_level_one == [t \in 1..Len(mix_level) |-> Sqrt(Abs(mix_level[t]))]
      mix_level_two == [t \in 1..Len(mix_level) |->
                          Unit - Sqrt(Abs(mix_level[t] - Unit * Unit))]
  IN [t \in 1..Len(signal_one) |->
        mix_level_one[t] * signal_one[t] + mix_level_two[t] * signal_two[t]]

MixInit ==
  /\ GroupInit({<<>>})
  /\ mix \in { [pc |-> "args", signal_one |-> a, signal_two |-> b,
                mix_level |-> <<>>, out |-> <<>>, err |-> ""] :
                 a \in Signals, b \in Signals }

GroupVars == << dag, built, heap, pc, entry, arg, outputs, i, inputs, controls,
                signal, ret, calls, base, recorded, steps, failedAt, buildCount >>

\* controls = self.get_controls(signal_one, signal_two, nn_out_mix_level)
MixControls ==
  /\ mix.pc = "args"
  /\ \E r \in MixGetControls(mix.signal_one, mix.signal_two) :
       IF r.ok
         THEN mix' = [mix EXCEPT !.pc = "controls", !.mix_level = r.val.mix_level]
         ELSE mix' = [mix EXCEPT !.pc = "raised", !.err = r.err]
  /\ UNCHANGED GroupVars

\* signal = self.get_signal(**controls)
MixSignal ==
  /\ mix.pc = "controls"
  /\ mix' = [mix EXCEPT !.pc = "done",
                        !.out = MixGetSignal(mix.signal_one, mix.signal_two,
                                             mix.mix_level)]
  /\ UNCHANGED GroupVars

MixNext ==
  \/ MixControls
  \/ MixSignal

MixSpec == MixInit /\ [][MixNext]_vars

\* ------------------------------------------------------------------ properties
Range(q) == {q[j] : j \in 1..Len(q)}

NodeName(d, j) == ProcName(d[j].processor)

NodeNames(d) == {NodeName(d, j) : j \in 1..Len(d)}

UniqueNames(d) ==
  \A a, b \in 1..Len(d) : a # b => NodeName(d, a) # NodeName(d, b)

Finished == pc = "idle" /\ calls > 0
Returned == Finished /\ ret.status = "returned"
Raised == Finished /\ ret.status = "raised"

\* The entry the latest node named `name` produced in this invocation.
LastRecorded(name) ==
  LET js == {j \in 1..Len(recorded) : recorded[j][2] = name}
      last == CHOOSE j \in js : \A k \in js : k <= j
  IN recorded[last][3]

GroupStepDone == <<Len(dag) + 1, "group">> \in Range(steps) /\ failedAt[2] # "group"

\* C1, as stated: with unique processor names, a successful get_controls adds
\* exactly n + 1 top-level keys, one entry per node holding that node's
\* controls and signal, and the group's entry.
C1_KeysAdded ==
  (Returned /\ entry = "get_controls" /\ UniqueNames(dag)) =>
    LET ns == heap[ret.ns]
    IN /\ Cardinality(DOMAIN ns \ DOMAIN base) = Len(dag) + 1
       /\ GroupName \in DOMAIN ns
       /\ \A j \in 1..Len(dag) :
            /\ NodeName(dag, j) \in DOMAIN ns
            /\ ns[NodeName(dag, j)] = recorded[j][3]

NamesApart ==
  /\ UniqueNames(dag)
  /\ GroupName \notin NodeNames(dag)
  /\ (NodeNames(dag) \cup {GroupName}) \cap DOMAIN base = {}

\* C1, amended: with unique processor names, none of them the group's name,
\* and an input namespace with no top-level key equal to a processor's name or
\* to the group's name, a successful get_controls adds exactly n + 1 top-level
\* keys: one entry per node with that node's controls and signal, and the
\* group's entry; the entries of the input namespace are kept.
C1_KeysAddedApart ==
  (Returned /\ entry = "get_controls" /\ NamesApart) =>
    LET ns == heap[ret.ns]
    IN /\ Cardinality(DOMAIN ns \ DOMAIN base) = Len(dag) + 1
       /\ DOMAIN ns = DOMAIN base \cup NodeNames(dag) \cup {GroupName}
       /\ \A j \in 1..Len(dag) : ns[NodeName(dag, j)] = recorded[j][3]
       /\ \A k \in DOMAIN base : ns[k] = base[k]

C1_Witness ==
  /\ Returned /\ entry = "get_controls" /\ NamesApart
  /\ Len(dag) = 2
  /\ Cardinality(DOMAIN heap[ret.ns] \ DOMAIN base) = 3

\* Some key path of the node at its lookup does not resolve in the namespace.
C2_Unresolved ==
  pc = "lookup" /\ \E j \in 1..Len(dag[i].keys) :
                     ~nested_lookup(dag[i].keys[j], heap[outputs]).ok

C2_InputsAreLookedUp ==
  pc \in {"build", "controls", "signal", "record"} =>
    /\ Len(inputs) = Len(dag[i].keys)
    /\ \A j \in 1..Len(inputs) :
         LET r == nested_lookup(dag[i].keys[j], heap[outputs])
         IN r.ok /\ r.val = inputs[j]

\* C2: a node with a key path that does not resolve in the namespace at the
\* moment of its lookup ends the invocation with MissingInput at that lookup,
\* and a node past its lookup holds exactly the values found in the namespace.
C2_MissingInput ==
  /\ []C2_InputsAreLookedUp
  /\ [][C2_Unresolved =>
          /\ pc' = "idle"
          /\ ret' = [status |-> "raised", error |-> "MissingInput", ns |-> 0,
                     signal |-> None]
          /\ failedAt' = <<i, "lookup">>
          /\ heap' = heap /\ built' = built /\ recorded' = recorded]_vars

\* An out-of-order DAG: the first node reads the entry of the second.
C2_Witness ==
  /\ Raised /\ ret.error = "MissingInput"
  /\ failedAt = <<1, "lookup">>
  /\ Len(dag) = 2
  /\ dag[1].keys[1][1] = NodeName(dag, 2)
  /\ NodeName(dag, 2) \notin DOMAIN heap[arg]

\* C3: a returning invocation yields the signal of the last node in declared
\* order, which is also what the group's entry holds.
C3_LastSignal ==
  Returned =>
    /\ Len(dag) > 0
    /\ Len(recorded) = Len(dag)
    /\ recorded[Len(dag)][1] = Len(dag)
    /\ heap[arg][GroupName] = D([signal |-> recorded[Len(dag)][3].val.signal])
    /\ entry = "call" => ret.signal = recorded[Len(dag)][3].val.signal

C3_Witness ==
  /\ Returned /\ entry = "call"
  /\ Len(dag) = 2
  /\ recorded[1][3].val.signal # recorded[2][3].val.signal
  /\ ret.signal = recorded[2][3].val.signal

\* Every top-level entry of the mapping in use came in with it or was written
\* by this invocation.
C4_OwnEntries ==
  calls > 0 =>
    LET ns == heap[arg]
    IN \A k \in DOMAIN ns :
         \/ k \in DOMAIN base /\ ns[k] = base[k]
         \/ \E j \in 1..Len(recorded) : recorded[j][2] = k /\ ns[k] = recorded[j][3]
         \/ /\ k = GroupName
            /\ GroupStepDone
            /\ ns[k] = D([signal |-> recorded[Len(recorded)][3].val.signal])

\* C4: an invocation touches no mapping but the one it was handed, every
\* top-level entry of that mapping is either an entry it was handed with or
\* one written by this invocation, and the group's DAG never changes.
C4_Independent ==
  /\ []C4_OwnEntries
  /\ [][/\ dag' = dag
        /\ Len(heap') >= Len(heap)
        /\ \A m \in 1..Len(heap) : m # arg' => heap'[m] = heap[m]]_vars

\* A second invocation on a fresh mapping, after a first that returned.
C4_Witness ==
  /\ Returned /\ calls = 2 /\ arg = 2
  /\ GroupName \in DOMAIN heap[1]
  /\ heap[1]["x"] # heap[2]["x"]
  /\ heap[1][GroupName] # heap[2][GroupName]

\* C6: a group with an empty DAG never returns; each invocation ends with a
\* ConfigurationError and leaves the mapping as it was.
C6_EmptyDag ==
  dag = <<>> =>
    /\ ret.status # "returned"
    /\ Finished => /\ ret = [status |-> "raised", error |-> "ConfigurationError",
                             ns |-> 0, signal |-> None]
                   /\ heap[arg] = base

C6_Witness == dag = <<>> /\ Raised /\ ret.error = "ConfigurationError" /\ calls = 2

\* The state of an invocation in which a step has failed.
C7_Aborted ==
  failedAt # <<0, "">> =>
    /\ Raised
    /\ ret.error # ""
    /\ ret.ns = 0 /\ ret.signal = None
    /\ steps[Len(steps)] = failedAt
    /\ \A j \in 1..Len(steps) - 1 : steps[j] # failedAt
    /\ \A j \in 1..Len(recorded) : recorded[j][1] < failedAt[1]
    /\ ~GroupStepDone

\* C7: once a step has failed the invocation is over: it has raised, the
\* failing step is the last step taken, no later node has recorded anything,
\* the group's entry was not written and neither namespace nor signal is
\* returned; the failing step itself leaves every mapping as it was.
C7_FailFast ==
  /\ []C7_Aborted
  /\ [][failedAt' # failedAt /\ failedAt' # <<0, "">> => heap' = heap]_vars

\* The second node failed in get_signal, after the first was recorded.
C7_Witness ==
  /\ Raised /\ failedAt = <<2, "signal">>
  /\ Len(dag) > 1
  /\ Len(recorded) = 1
  /\ GroupName \notin DOMAIN heap[arg]

\* The build counts and flags agree, and get_controls runs on a built instance.
C8_Counts ==
  /\ \A p \in ProcIds : buildCount[p] <= 1 /\ (built[p] <=> buildCount[p] = 1)
  /\ pc \in {"controls", "signal", "record"} => built[dag[i].processor]

\* C8: processor.build runs at most once per instance, only at the build step
\* of a node of that instance whose inputs are resolved, only while the
\* instance is not built, and a node never reaches get_controls unbuilt.
C8_BuildOnce ==
  /\ []C8_Counts
  /\ [][/\ \A p \in ProcIds :
             buildCount'[p] # buildCount[p] =>
               /\ pc = "build" /\ pc' = "controls"
               /\ p = dag[i].processor
               /\ ~built[p]
               /\ LookupAll(dag[i].keys, heap[outputs]) = Ok(inputs)
        /\ \A p \in ProcIds : built[p] => built'[p]
        /\ (pc = "build" /\ built[dag[i].processor]) =>
             (pc' = "controls" /\ buildCount' = buildCount)]_vars

\* The same instance in both nodes, in the second invocation.
C8_Witness ==
  /\ calls = 2 /\ pc = "controls" /\ i = 2
  /\ dag[1].processor = dag[2].processor
  /\ buildCount[dag[2].processor] = 1
  /\ <<1, "skip">> \in Range(steps) /\ <<2, "skip">> \in Range(steps)

\* The top-level key the step at hand may write.
C9_Written ==
  IF pc = "record" THEN {NodeName(dag, i)}
  ELSE IF pc = "group" THEN {GroupName}
  ELSE {}

C5_Boundary ==
  mix.pc = "done" =>
    /\ (\A t \in 1..Len(mix.mix_level) : mix.mix_level[t] = 0) =>
         mix.out = [t \in 1..Len(mix.signal_one) |-> Unit * mix.signal_one[t]]
    /\ (\A t \in 1..Len(mix.mix_level) : mix.mix_level[t] = Unit * Unit) =>
         mix.out = [t \in 1..Len(mix.signal_two) |-> Unit * mix.signal_two[t]]

====
